---- MODULE Spec2Model ----
(***************************************************************************)
(* EG4 Lifepower BMS driver (dbus-serialbattery/bms/eg4_lifepower.py).     *)
(*                                                                         *)
(* The driver object is the record `self`.  Python values are encoded as:  *)
(*   bytes / bytearray   a sequence of 0..255                              *)
(*   False (no data)     PyFalse, the one-element sequence <<-1>>          *)
(*   None                None, the empty sequence; a set field is <<v>>    *)
(*   x / 100, x / 1000   the integer numerator x (hundredths, thousandths) *)
(*   a raised exception  the name of its class as the call's result        *)
(* The transport (utils.read_serial_data) is the environment: what it      *)
(* returns for each command is an input of the action.                     *)
(***************************************************************************)
EXTENDS Integers, Sequences, FiniteSets, TLC

VARIABLES
    self,     \* the EG4_Lifepower instance (address, commands, telemetry fields)
    op,       \* the public method called last
    result,   \* what that call returned, or the exception that left it
    calls,    \* the methods test_connection called, in order, with their outcomes
    reads,    \* the read_serial_data_eg4 calls of the last call, in order
    groups    \* the local `groups` of the last read_status_data that decoded

vars == <<self, op, result, calls, reads, groups>>

\* ------------------------------------------------------------ Python values

PyFalse == <<-1>>
None == <<>>
Some(v) == <<v>>
Last(s) == s[Len(s)]

\* data[lo:hi] for 0 <= lo, 0 <= hi: the slice is clamped to the buffer.
Slice(data, lo, hi) ==
    SubSeq(data, lo + 1, IF hi < Len(data) THEN hi ELSE Len(data))

\* x & (1 << bit) > 0
BitSet(x, bit) == (x \div (2 ^ bit)) % 2 = 1

\* ------------------------------------------------------------ command builder

get_command_general_part_no_08(a) ==
    IF a = 0 THEN 0
    ELSE IF a \in {2, 6, 10, 14} THEN 252
    ELSE IF a \in {4, 8, 12} THEN 248
    ELSE 254

get_command_general_part(a) ==
    IF a = 0 THEN 0
    ELSE IF a = 2 \/ a = 6 \/ a = 10 \/ a = 14 THEN 252
    ELSE IF a = 4 \/ a = 12 THEN 248
    ELSE IF a = 8 THEN 240
    ELSE 254

\* __init__: the three command frames are built once from the address.  The
\* fields this constructor does not assign are unset (None, no cells) until
\* a method of the class assigns them; none is read before that.
New(a, on) ==
    [ address                  |-> a,
      online                   |-> on,
      command_general          |-> <<126, a, 1, 0, get_command_general_part(a), 13>>,
      command_hardware_version |-> <<126, a, 66, 0, 252, 13>>,
      command_firmware_version |-> <<126, a, 51, 0, get_command_general_part(a), 13>>,
      poll_interval            |-> 2000,
      hardware_version         |-> None,
      version                  |-> None,
      charge_fet               |-> None,
      discharge_fet            |-> None,
      cell_count               |-> None,
      cells                    |-> <<>>,
      current                  |-> None,
      soc                      |-> None,
      capacity                 |-> None,
      temperature_1            |-> None,
      temperature_2            |-> None,
      temperature_3            |-> None,
      temperature_4            |-> None,
      temperature_5            |-> None,
      temperature_6            |-> None,
      protection               |-> [ high_charge_current     |-> None,
                                     high_voltage            |-> None,
                                     low_voltage             |-> None,
                                     high_charge_temperature |-> None,
                                     low_charge_temperature  |-> None ],
      charge_cycles            |-> None,
      voltage                  |-> None ]

\* ------------------------------------------------------------ frame reader

\* One read_serial_data_eg4(command), the transport answering `data`.  The
\* record tells what the call returned (ret), the transport reads it made
\* (sent: command and battery_online of each) and the calls it made of
\* get_connection_error_message (reported: the argument of each).
read_serial_data_eg4_retry(s, command, data) ==
    LET rd == [command |-> command, battery_online |-> s.online]
    IN  IF data = PyFalse
        THEN [command |-> command, data |-> data, ret |-> PyFalse,
              sent |-> <<rd, rd>>, reported |-> <<>>]
        ELSE IF Last(data) = 13
        THEN [command |-> command, data |-> data, ret |-> data,
              sent |-> <<rd>>, reported |-> <<>>]
        ELSE [command |-> command, data |-> data, ret |-> PyFalse,
              sent |-> <<rd>>, reported |-> <<s.online>>]

read_serial_data_eg4_any_eol(s, command, data) ==
    LET rd == [command |-> command, battery_online |-> s.online]
    IN  IF data = PyFalse
        THEN [command |-> command, data |-> data, ret |-> PyFalse,
              sent |-> <<rd>>, reported |-> <<>>]
        ELSE IF Last(data) = 13 \/ Last(data) = 10
        THEN [command |-> command, data |-> data, ret |-> data,
              sent |-> <<rd>>, reported |-> <<>>]
        ELSE [command |-> command, data |-> data, ret |-> PyFalse,
              sent |-> <<rd>>, reported |-> <<s.online>>]

read_serial_data_eg4(s, command, data) ==
    LET rd == [command |-> command, battery_online |-> s.online]
    IN  IF data = PyFalse
        THEN [command |-> command, data |-> data, ret |-> PyFalse,
              sent |-> <<rd>>, reported |-> <<>>]
        ELSE IF Last(data) = 13
        THEN [command |-> command, data |-> data, ret |-> data,
              sent |-> <<rd>>, reported |-> <<>>]
        ELSE [command |-> command, data |-> data, ret |-> PyFalse,
              sent |-> <<rd>>, reported |-> <<s.online>>]

\* ------------------------------------------------------------ group decoder

\* [unpack_from(">H", group_payload, k)[0] for k in range(0, len, 2)]:
\* big-endian 16-bit values.  The last unpack_from of an odd-length payload
\* raises struct.error: DecodeGroups tells that case apart before it unpacks
\* (the -1 stands for the value that is never produced).
RECURSIVE Unpack(_)
Unpack(payload) ==
    IF payload = <<>> THEN <<>>
    ELSE IF Len(payload) = 1 THEN <<-1>>
    ELSE <<payload[1] * 256 + payload[2]>> \o Unpack(SubSeq(payload, 3, Len(payload)))

\* The loop `for j in range(0, 10)` from iteration j on, i being the offset
\* of the group and acc the groups decoded so far.
RECURSIVE DecodeGroups(_, _, _, _)
DecodeGroups(status_data, i, j, acc) ==
    IF j = 10 THEN [exc |-> "", groups |-> acc]
    ELSE IF i + 1 >= Len(status_data) THEN [exc |-> "IndexError", groups |-> acc]
    ELSE LET group_len     == status_data[i + 2]
             end           == i + 2 + group_len * 2
             group_payload == Slice(status_data, i + 2, end)
             values        == Unpack(group_payload)
         IN  IF Len(group_payload) % 2 = 1
             THEN [exc |-> "struct.error", groups |-> acc]
             ELSE DecodeGroups(status_data, end, j + 1, Append(acc, values))

\* ------------------------------------------------------------ telemetry mapper

\* The right-hand sides of the assignments of read_status_data.  groups[k][n]
\* of the source is g[k + 1][n + 1] here.
CellVoltages(g) == [n \in 1..Len(g[1]) |-> g[1][n] % 16384]
Current_no_offset(g) == g[2][1]
Current(g) == 30000 - g[2][1]
Temperature(g, n) == (g[5][n] % 256) - 50
Alarm_bit_from_one(g, bit) == IF BitSet(g[6][2], bit + 1) THEN 2 ELSE 0
Alarm(g, bit) == IF BitSet(g[6][2], bit) THEN 2 ELSE 0

\* The statements after the decode loop, in order.  Each indexing of a group
\* that is too short raises IndexError and leaves the fields assigned before
\* it as they were assigned.
MapTelemetry(s, g) ==
    LET raise(t) == [self |-> t, ret |-> "IndexError"]
        s0 == [s EXCEPT !.cell_count = Some(Len(g[1])), !.cells = CellVoltages(g)]
        s1 == [s0 EXCEPT !.current = Some(Current(g))]
        s2 == [s1 EXCEPT !.soc = Some(g[3][1])]
        s3 == [s2 EXCEPT !.capacity = Some(g[4][1])]
        t1 == [s3 EXCEPT !.temperature_1 = Some(Temperature(g, 1))]
        t2 == [t1 EXCEPT !.temperature_2 = Some(Temperature(g, 2))]
        t3 == [t2 EXCEPT !.temperature_3 = Some(Temperature(g, 3))]
        t4 == [t3 EXCEPT !.temperature_4 = Some(Temperature(g, 4))]
        t5 == [t4 EXCEPT !.temperature_5 = Some(Temperature(g, 5))]
        t6 == [t5 EXCEPT !.temperature_6 = Some(Temperature(g, 6))]
        s5 == [t6 EXCEPT !.protection =
                 [ high_charge_current     |-> Some(Alarm(g, 3)),
                   high_voltage            |-> Some(Alarm(g, 4)),
                   low_voltage             |-> Some(Alarm(g, 5)),
                   high_charge_temperature |-> Some(Alarm(g, 6)),
                   low_charge_temperature  |-> Some(Alarm(g, 7)) ]]
        s6 == [s5 EXCEPT !.charge_cycles = Some(g[7][1])]
        s7 == [s6 EXCEPT !.voltage = Some(g[8][1])]
    IN  IF Len(g[2]) < 1 THEN raise(s0)
        ELSE IF Len(g[3]) < 1 THEN raise(s1)
        ELSE IF Len(g[4]) < 1 THEN raise(s2)
        ELSE IF Len(g[5]) < 1 THEN raise(s3)
        ELSE IF Len(g[5]) < 2 THEN raise(t1)
        ELSE IF Len(g[5]) < 3 THEN raise(t2)
        ELSE IF Len(g[5]) < 4 THEN raise(t3)
        ELSE IF Len(g[5]) < 5 THEN raise(t4)
        ELSE IF Len(g[5]) < 6 THEN raise(t5)
        ELSE IF Len(g[6]) < 2 THEN raise(t6)
        ELSE IF Len(g[7]) < 1 THEN raise(s5)
        ELSE IF Len(g[8]) < 1 THEN raise(s6)
        ELSE [self |-> s7, ret |-> "True"]

\* read_status_data, the transport answering `data` to the general command.
read_status_data(s, data) ==
    LET rd == read_serial_data_eg4(s, s.command_general, data)
    IN  IF rd.ret = PyFalse
        THEN [self |-> s, ret |-> "False", reads |-> <<rd>>, groups |-> <<>>]
        ELSE LET dec == DecodeGroups(rd.ret, 4, 0, <<>>)
             IN  IF dec.exc # ""
                 THEN [self |-> s, ret |-> dec.exc, reads |-> <<rd>>, groups |-> <<>>]
                 ELSE LET m == MapTelemetry(s, dec.groups)
                      IN  [self |-> m.self, ret |-> m.ret, reads |-> <<rd>>,
                           groups |-> dec.groups]

refresh_data(s, data) == read_status_data(s, data)

\* ------------------------------------------------------------ driver facade

\* re.sub(r"[^a-zA-Z0-9-._ ]", "", str(b, encoding="utf-8", errors="ignore")):
\* every character the class keeps is one ASCII byte, and a byte of 128 or
\* more is either dropped by the decoder or part of a character the
\* substitution removes, so what is left is the kept bytes in order.
Kept(b) ==
    \/ b \in 97..122 \/ b \in 65..90 \/ b \in 48..57
    \/ b = 45 \/ b = 46 \/ b = 95 \/ b = 32

Sanitize(data) == SelectSeq(data, Kept)

get_settings_both(s, hw, fw) ==
    LET r1 == read_serial_data_eg4(s, s.command_hardware_version, hw)
        s1 == IF r1.ret # PyFalse
              THEN [s EXCEPT !.hardware_version = Some(Sanitize(r1.ret))] ELSE s
        r2 == read_serial_data_eg4(s1, s1.command_firmware_version, fw)
        s2 == IF r2.ret # PyFalse
              THEN [s1 EXCEPT !.version = Some(Sanitize(r2.ret))] ELSE s1
        s3 == [s2 EXCEPT !.charge_fet = Some(TRUE), !.discharge_fet = Some(TRUE)]
    IN  [self |-> s3,
         ret |-> IF r1.ret # PyFalse /\ r2.ret # PyFalse THEN "True" ELSE "False",
         reads |-> <<r1, r2>>, groups |-> <<>>]

\* get_settings, the transport answering hw to the hardware-version command
\* and fw to the firmware-version command.
get_settings(s, hw, fw) ==
    LET r1 == read_serial_data_eg4(s, s.command_hardware_version, hw)
        s1 == IF r1.ret # PyFalse
              THEN [s EXCEPT !.hardware_version = Some(Sanitize(r1.ret))] ELSE s
        r2 == read_serial_data_eg4(s1, s1.command_firmware_version, fw)
        s2 == IF r2.ret # PyFalse
              THEN [s1 EXCEPT !.version = Some(Sanitize(r2.ret))] ELSE s1
        s3 == [s2 EXCEPT !.charge_fet = Some(TRUE), !.discharge_fet = Some(TRUE)]
    IN  [self |-> s3,
         ret |-> IF r1.ret # PyFalse \/ r2.ret # PyFalse THEN "True" ELSE "False",
         reads |-> <<r1, r2>>, groups |-> <<>>]

\* The except clause of test_connection: any Exception becomes False.
Caught_reraise(ret) == ret
Caught(ret) == IF ret \in {"True", "False"} THEN ret ELSE "False"

\* test_connection: get_settings, and refresh_data only when it returned True.
test_connection(s, hw, fw, data) ==
    LET gs == get_settings(s, hw, fw)
        c1 == [method |-> "get_settings", ret |-> gs.ret]
    IN  IF gs.ret # "True"
        THEN [self |-> gs.self, ret |-> Caught(gs.ret), calls |-> <<c1>>,
              reads |-> gs.reads, groups |-> <<>>]
        ELSE LET rf == refresh_data(gs.self, data)
                 c2 == [method |-> "refresh_data", ret |-> rf.ret]
             IN  [self |-> rf.self, ret |-> Caught(rf.ret), calls |-> <<c1, c2>>,
                  reads |-> gs.reads \o rf.reads, groups |-> rf.groups]

\* ------------------------------------------------------------ transport answers

MaxCells == 2
MaxTail == 3

Word(v) == <<v \div 256, v % 256>>

RECURSIVE Words(_)
Words(vs) == IF vs = <<>> THEN <<>> ELSE Word(Head(vs)) \o Words(Tail(vs))

\* The bytes of the groups gs, numbered from `id` on: <id> <count> <values>.
RECURSIVE GroupBytes(_, _)
GroupBytes(gs, id) ==
    IF gs = <<>> THEN <<>>
    ELSE <<id, Len(Head(gs))>> \o Words(Head(gs)) \o GroupBytes(Tail(gs), id + 1)

\* A response without its terminator: four leading bytes, then the groups.
Body(gs) == <<126, 1, 1, 0>> \o GroupBytes(gs, 1)
Frame(gs) == Body(gs) \o <<13>>

\* The ten groups of a pack of c cells drawing (30000 - r) / 100 A with alarm
\* word v, and of a second pack all of whose values differ from the first's.
Pack(c, r, v) ==
    << [n \in 1..c |-> 3300 + n], <<r>>, <<5000>>, <<10000>>,
       <<70, 71, 72, 73, 74, 75>>, <<0, v>>, <<12>>, <<5280>>, <<>>, <<>> >>

OtherPack ==
    << <<52552>>, <<31000>>, <<9900>>, <<28000>>,
       <<336, 20, 255, 0, 50, 1074>>, <<65535, 80>>, <<300>>, <<5400>>,
       <<1>>, [n \in 1..MaxTail |-> n] >>

\* Groups read by the mapper, each with a number of values that is too small:
\* <<k, n>> leaves n values in groups[k].
ShortCases ==
    {<<1, 0>>, <<2, 0>>, <<3, 0>>, <<6, 0>>, <<7, 0>>}
        \cup {<<4, n>> : n \in 0..5} \cup {<<5, 0>>, <<5, 1>>}

Shorten(gs, k, n) == [gs EXCEPT ![k + 1] = SubSeq(gs[k + 1], 1, n)]

GoodFrames == {Frame(Pack(c, 29000, 0)) : c \in 0..MaxCells} \cup {Frame(OtherPack)}
ShortFrames == {Frame(Shorten(OtherPack, c[1], c[2])) : c \in ShortCases}

\* A response cut after its first m bytes, the terminator following the cut.
Cut(body, m) == SubSeq(body, 1, m) \o <<13>>
CutFrames == {Cut(Body(OtherPack), m) : m \in 4..(Len(Body(OtherPack)) - 1)}

BadTerminator == {Body(Pack(1, 29000, 0)) \o <<0>>, Frame(OtherPack) \o <<10>>}

StatusResponses ==
    {PyFalse, Cut(Body(OtherPack), 30)} \cup GoodFrames \cup ShortFrames
        \cup BadTerminator

ProbeResponses ==
    {PyFalse, Frame(Pack(1, 29000, 0)), Frame(Shorten(OtherPack, 1, 0)),
     Cut(Body(OtherPack), 30), Body(Pack(1, 29000, 0)) \o <<0>>}

\* A version answer: 7E 01 42 00, the text "EG4-LL_v1 2", the two bytes E4 B8
\* (the start of a character that is cut short), ended by 0x0D and by 0x0A.
VersionText == <<126, 1, 66, 0, 69, 71, 52, 45, 76, 76, 95, 118, 49, 32, 50, 228, 184>>
VersionResponses == {PyFalse, VersionText \o <<13>>, VersionText \o <<10>>}

RawCurrents == {0, 1, 29000, 29999, 30000, 30001, 31000, 65535}
AlarmWords ==
    {8 * a + o : a \in 0..31, o \in {0, 7, 65280, 65287}}
        \cup {2 ^ b : b \in 0..15}
TelemetryResponses ==
    {Frame(Pack(1, r, 0)) : r \in RawCurrents}
        \cup {Frame(Pack(1, 29000, v)) : v \in AlarmWords}
        \cup {Frame(Pack(1, 31000, v)) : v \in {0, 80, 248, 65535}}

Addresses == {8}

\* ------------------------------------------------------------ specification

Init ==
    /\ self \in {New(a, on) : a \in Addresses, on \in BOOLEAN}
    /\ op = "__init__"
    /\ result = "None"
    /\ calls = <<>>
    /\ reads = <<>>
    /\ groups = <<>>

InitAnyAddress ==
    /\ self \in {New(a, on) : a \in 0..255, on \in BOOLEAN}
    /\ op = "__init__"
    /\ result = "None"
    /\ calls = <<>>
    /\ reads = <<>>
    /\ groups = <<>>

GetSettings ==
    \E hw \in VersionResponses, fw \in VersionResponses :
        \E r \in {get_settings(self, hw, fw)} :
            /\ self' = r.self
            /\ op' = "get_settings"
            /\ result' = r.ret
            /\ calls' = <<>>
            /\ reads' = r.reads
            /\ groups' = r.groups

RefreshDataOn(answers) ==
    \E data \in answers :
        \E r \in {refresh_data(self, data)} :
            /\ self' = r.self
            /\ op' = "refresh_data"
            /\ result' = r.ret
            /\ calls' = <<>>
            /\ reads' = r.reads
            /\ groups' = r.groups

RefreshData == RefreshDataOn(StatusResponses)

TestConnection ==
    \E hw \in VersionResponses, fw \in VersionResponses, data \in ProbeResponses :
        \E r \in {test_connection(self, hw, fw, data)} :
            /\ self' = r.self
            /\ op' = "test_connection"
            /\ result' = r.ret
            /\ calls' = r.calls
            /\ reads' = r.reads
            /\ groups' = r.groups

Next == GetSettings \/ RefreshData \/ TestConnection

Spec == Init /\ [][Next]_vars

\* The decoder on every cut of one response.
RefreshCut == RefreshDataOn(CutFrames \cup {Frame(OtherPack)})
SpecDecode == Init /\ [][RefreshCut]_vars

\* The mapper on the raw currents and the alarm words.
RefreshTelemetry == RefreshDataOn(TelemetryResponses)
SpecTelemetry == Init /\ [][RefreshTelemetry]_vars

\* The command builder on every address byte.
RefreshAny == RefreshDataOn({PyFalse, Frame(Pack(1, 29000, 0))})
SpecCommands == InitAnyAddress /\ [][GetSettings \/ RefreshAny]_vars

\* ------------------------------------------------------------ properties

\* Bit `bit` of x, by remainders.
BitOf(x, bit) == (x % (2 ^ (bit + 1))) >= 2 ^ bit

\* The telemetry fields of the driver.
Telemetry(s) ==
    << s.cell_count, s.cells, s.current, s.soc, s.capacity,
       s.temperature_1, s.temperature_2, s.temperature_3,
       s.temperature_4, s.temperature_5, s.temperature_6,
       s.protection, s.charge_cycles, s.voltage >>

\* Some group among the ten, walked from offset i (group j), declares a count
\* whose payload span [i+2, i+2+2n) extends past the end of the buffer.
RECURSIVE Overruns(_, _, _)
Overruns(data, i, j) ==
    /\ j < 10
    /\ i + 1 < Len(data)
    /\ \/ i + 2 + 2 * data[i + 2] > Len(data)
       \/ Overruns(data, i + 2 + 2 * data[i + 2], j + 1)

\* A group the mapper reads has too few values.
TooShort(g) ==
    \/ \E k \in {2, 3, 4, 7, 8} : Len(g[k]) = 0
    \/ Len(g[5]) < 6
    \/ Len(g[6]) < 2

TransportReads ==
    [k \in 1..Len(reads) |-> reads[k].sent[1].command]

\* C1: for every address byte a the trailer of command_general (the byte
\* before its 0x0D terminator) is 0x00 for a = 0x00, 0xFC for 0x02, 0x06,
\* 0x0A, 0x0E, 0xF8 for 0x04, 0x0C, 0xF0 for 0x08 and 0xFE for every other.
C1_TrailerTable ==
    LET a == self.address
        t == self.command_general[5]
    IN  /\ Len(self.command_general) = 6
        /\ self.command_general[6] = 13
        /\ a = 0 => t = 0
        /\ a \in {2, 6, 10, 14} => t = 252
        /\ a \in {4, 12} => t = 248
        /\ a = 8 => t = 240
        /\ a \in (1..255) \ {2, 4, 6, 8, 10, 12, 14} => t = 254

\* C1 witness: the driver of address 0x08 sent its general command, trailer 0xF0.
C1_Witness ==
    /\ self.address = 8
    /\ op = "refresh_data"
    /\ reads[1].sent[1].command = <<126, 8, 1, 0, 240, 13>>

\* C2: a buffer the transport returned is refused (False) when its last byte
\* is not 13, whatever its other bytes, and returned as it is when it is 13.
C2_TerminatorCheck ==
    \A k \in 1..Len(reads) :
        reads[k].data # PyFalse =>
            IF Last(reads[k].data) = 13
            THEN reads[k].ret = reads[k].data
            ELSE reads[k].ret = PyFalse

\* C2 witness: a whole valid response followed by 0x0A was refused.
C2_Witness ==
    /\ op = "refresh_data"
    /\ reads[1].data = Frame(OtherPack) \o <<10>>
    /\ reads[1].ret = PyFalse
    /\ result = "False"

\* C3: get_settings returns True iff at least one of the two version reads
\* succeeded, and the firmware-version read is issued whatever the
\* hardware-version read gave.
C3_SettingsEither ==
    op = "get_settings" =>
        /\ Len(reads) = 2
        /\ reads[1].command = self.command_hardware_version
        /\ reads[2].command = self.command_firmware_version
        /\ result \in {"True", "False"}
        /\ result = "True" <=> (reads[1].ret # PyFalse \/ reads[2].ret # PyFalse)

\* C3 witness: the hardware-version read failed, the firmware-version read
\* succeeded, and get_settings returned True.
C3_Witness ==
    /\ op = "get_settings"
    /\ reads[1].ret = PyFalse
    /\ reads[2].ret # PyFalse
    /\ result = "True"

\* C4: test_connection returns True exactly when get_settings and then
\* refresh_data returned True; after a False get_settings the general command
\* is never sent; an exception of a step becomes False and does not propagate.
C4_ProbeBoth ==
    op = "test_connection" =>
        /\ result \in {"True", "False"}
        /\ Len(calls) >= 1
        /\ calls[1].method = "get_settings"
        /\ result = "True" <=>
              /\ Len(calls) = 2
              /\ calls[1].ret = "True"
              /\ calls[2].method = "refresh_data"
              /\ calls[2].ret = "True"
        /\ calls[1].ret = "False" =>
              \A k \in 1..Len(reads) : TransportReads[k] # self.command_general
        /\ (\E k \in 1..Len(calls) : calls[k].ret \notin {"True", "False"}) =>
              result = "False"

\* C4 witness: refresh_data raised IndexError inside test_connection, which
\* returned False.
C4_Witness ==
    /\ op = "test_connection"
    /\ Len(calls) = 2
    /\ calls[2].ret = "IndexError"
    /\ result = "False"

\* C5: a response that passes the terminator check but in which a group
\* declares more values than the buffer holds is not decoded with success.
C5_TruncatedFails ==
    (/\ op = "refresh_data"
     /\ reads[1].ret # PyFalse
     /\ Overruns(reads[1].ret, 4, 0)) => result # "True"

\* C6: a refresh_data that does not succeed leaves every telemetry field as
\* it was before the call.
C6_FailureKeepsTelemetry ==
    [][(op' = "refresh_data" /\ result' # "True")
          => Telemetry(self') = Telemetry(self)]_vars

\* C7: a response with ten well-formed groups one of which is too short for
\* the mapper makes refresh_data return False (neither True nor an exception).
C7_ShortGroupReturnsFalse ==
    (/\ op = "refresh_data"
     /\ reads[1].ret # PyFalse
     /\ ~Overruns(reads[1].ret, 4, 0)
     /\ Len(groups) = 10
     /\ TooShort(groups)) => result = "False"

\* C8: after a successful read_status_data each of the five protection flags
\* is 2 iff its bit (3..7) of groups[5][1] is set and 0 otherwise; no other
\* bit changes a flag.
C8_AlarmBits ==
    (op = "refresh_data" /\ result = "True") =>
        LET v == groups[6][2]
            p == self.protection
            flag(bit) == Some(IF BitOf(v, bit) THEN 2 ELSE 0)
        IN  /\ p.high_charge_current = flag(3)
            /\ p.high_voltage = flag(4)
            /\ p.low_voltage = flag(5)
            /\ p.high_charge_temperature = flag(6)
            /\ p.low_charge_temperature = flag(7)

\* C8 witness: the word 0b01010000 with every other bit outside 3..7 set gave
\* high_voltage and high_charge_temperature 2 and the other three flags 0.
C8_Witness ==
    /\ op = "refresh_data"
    /\ result = "True"
    /\ groups[6][2] = 65280 + 80 + 7
    /\ self.protection = [ high_charge_current     |-> <<0>>,
                           high_voltage            |-> <<2>>,
                           low_voltage             |-> <<0>>,
                           high_charge_temperature |-> <<2>>,
                           low_charge_temperature  |-> <<0>> ]

\* C9: after a successful read_status_data the current in hundredths of an
\* amp is 30000 - r for r = groups[1][0]: positive below 30000, zero at
\* 30000, negative above; 29000 gives 10.00 A and 31000 gives -10.00 A.
C9_CurrentOffset ==
    (op = "refresh_data" /\ result = "True") =>
        LET r == groups[2][1]
            c == self.current[1]
        IN  /\ r \in 0..65535
            /\ self.current = <<c>>
            /\ c + r = 30000
            /\ r < 30000 => c > 0
            /\ r = 30000 => c = 0
            /\ r > 30000 => c < 0
            /\ r = 29000 => c = 1000
            /\ r = 31000 => c = -1000

\* C9 witness: the raw value 31000 was read as -10.00 A.
C9_Witness ==
    /\ op = "refresh_data"
    /\ result = "True"
    /\ groups[2][1] = 31000
    /\ self.current = <<-1000>>

\* C10: each read_serial_data_eg4 reads the transport exactly once; the
\* connection-error reporter is called exactly once, with the online flag,
\* when the buffer does not end in 13, and not at all when the transport
\* failed or the buffer ends in 13; get_settings makes exactly two transport
\* reads (hardware version, then firmware version), refresh_data exactly one.
C10_OneReadPerCall ==
    /\ \A k \in 1..Len(reads) :
          /\ Len(reads[k].sent) = 1
          /\ reads[k].sent[1] =
                [command |-> reads[k].command, battery_online |-> self.online]
          /\ reads[k].reported =
                IF reads[k].data # PyFalse /\ Last(reads[k].data) # 13
                THEN <<self.online>> ELSE <<>>
    /\ op = "get_settings" =>
          /\ Len(reads) = 2
          /\ TransportReads =
                <<self.command_hardware_version, self.command_firmware_version>>
    /\ op = "refresh_data" =>
          /\ Len(reads) = 1
          /\ TransportReads = <<self.command_general>>

\* C10 witness: in one get_settings of an offline driver the first read met a
\* bad terminator (one report, of False) and the transport failed the second.
C10_Witness ==
    /\ op = "get_settings"
    /\ ~self.online
    /\ reads[1].data # PyFalse
    /\ reads[1].reported = <<FALSE>>
    /\ reads[2].data = PyFalse
    /\ reads[2].reported = <<>>
    /\ Len(reads[2].sent) = 1

====
